---- MODULE Spec2Model ----
(***************************************************************************)
(* Model of hacklab-status-screen: the Browser monitor of src/output.rs    *)
(* (BrowserState behind one Mutex, the Hands keystroke sink behind a       *)
(* second Mutex, the autoscroll loop on a Condvar) driven by any number of *)
(* input threads calling the public Browser operations.                    *)
(*                                                                         *)
(* Threads are numbered 1..NumUsers (input threads) and NumUsers+1 (the    *)
(* autoscroll thread).  A mutex is modelled by the id of its holder, 0     *)
(* when it is free.  An Option<Instant> / Option<Duration> is the value,   *)
(* or -1 for None.  Instants are ticks of one monotonic clock, now.        *)
(***************************************************************************)
EXTENDS Integers, Sequences, FiniteSets, TLC

\* ------------------------------------------------------------- bounds
NumUsers == 2
MaxTabs == 3
RouteMaxTabs == 13
MaxTime == 4
MaxEntered == 2
MaxCommands == 3
ContentMaxTabs == 2
ReloadMax == 2
DelayDur == 1
HoldDur == 3
PauseDur == 4

\* ------------------------------------------------------------- state
VARIABLES
    kiosk,      \* Browser.kiosk: the autoscroll thread exists
    N,          \* Browser.tabs.len(): the number of tabs
    state,      \* BrowserState: [tab, changed, held, paused]
    lock,       \* holder of Browser.state (Mutex<BrowserState>), 0 = free
    hands,      \* holder of Browser.hands (Mutex<Hands>), 0 = free
    th,         \* per thread: position and locals of the running operation
    multiplier, \* autoscroll's local `multiplier`
    now,        \* Instant::now()
    browser,    \* the browser's active tab (what the keystrokes act on)
    monitors,   \* Eyes.monitors is not empty
    pages,      \* Browser.pages[i].reload: Option<Duration> of each tab
    konami,     \* Konami: the history window, the last add and its effects
    exec,       \* execute: the run mutex, its callers and command threads
    cfg         \* holder of Config.state (Mutex<State>), 0 = free

vars == <<kiosk, N, state, lock, hands, th, multiplier, now, browser,
          monitors, pages, konami, exec, cfg>>

Users == 1..NumUsers
Autoscroll == NumUsers + 1
Threads == 1..(NumUsers + 1)

\* ---------------------------------------------------- program constants
FIRST_TAB == 1
DIRECT_TABS == 8
KEY_NEXT_TAB == "Ctrl+Tab"
KEY_PREVIOUS_TAB == "Ctrl+Shift+Tab"
KEY_LAST_TAB == "Ctrl+9"
KEY_RELOAD == "Ctrl+r"
\* "Ctrl+".to_owned() + &tab.to_string(), for the tabs of direct_tabs
CtrlDigit == <<"Ctrl+1", "Ctrl+2", "Ctrl+3", "Ctrl+4",
               "Ctrl+5", "Ctrl+6", "Ctrl+7", "Ctrl+8">>
DirectKey(tab) == CtrlDigit[tab]
key_last_direct_tab == DirectKey(DIRECT_TABS)

autoscroll_delay == DelayDur
autoscroll_hold == HoldDur
autoscroll_pause == PauseDur

\* -------------------------------------------------------------- mutex
MutexFree_always(m) == TRUE

\* Mutex::lock returns only when no thread holds the mutex.
MutexFree(m) == m = 0

\* ------------------------------------------------------ tab arithmetic
last_tab == N
tab_count == N

previous_tab_id(st) ==
    IF st.tab = FIRST_TAB THEN last_tab ELSE st.tab - 1

next_tab_id_nowrap(st) == st.tab + 1

next_tab_id(st) ==
    IF st.tab = last_tab THEN FIRST_TAB ELSE st.tab + 1

\* Vec::resize(n, v)
Resize(s, n, v) ==
    IF n <= Len(s) THEN SubSeq(s, 1, n)
    ELSE s \o [i \in 1..(n - Len(s)) |-> v]

keys_from_last_direct_tab_short(tab) == tab - DIRECT_TABS

keys_from_last_direct_tab(tab) == 1 + (tab - DIRECT_TABS)
keys_from_last_tab(tab) == 1 + (last_tab - tab)
keys_from_current_tab(current, tab) ==
    IF tab < current THEN current - tab ELSE tab - current
key_from_current_tab_next(current, tab) == KEY_NEXT_TAB

key_from_current_tab(current, tab) ==
    IF tab < current THEN KEY_PREVIOUS_TAB ELSE KEY_NEXT_TAB

Min(a, b) == IF a <= b THEN a ELSE b

indirect_keys_strict(current, tab) ==
    IF keys_from_current_tab(current, tab)
           < Min(keys_from_last_direct_tab(tab), keys_from_last_tab(tab))
    THEN Resize(<<>>, keys_from_current_tab(current, tab),
                key_from_current_tab(current, tab))
    ELSE IF keys_from_last_direct_tab(tab) <= keys_from_last_tab(tab)
    THEN Resize(<<key_last_direct_tab>>, keys_from_last_direct_tab(tab),
                KEY_NEXT_TAB)
    ELSE Resize(<<KEY_LAST_TAB>>, keys_from_last_tab(tab), KEY_PREVIOUS_TAB)

\* The keys of the indirect branch of change_tab, joined into one press.
indirect_keys(current, tab) ==
    IF keys_from_current_tab(current, tab)
           <= Min(keys_from_last_direct_tab(tab), keys_from_last_tab(tab))
    THEN Resize(<<>>, keys_from_current_tab(current, tab),
                key_from_current_tab(current, tab))
    ELSE IF keys_from_last_direct_tab(tab) <= keys_from_last_tab(tab)
    THEN Resize(<<key_last_direct_tab>>, keys_from_last_direct_tab(tab),
                KEY_NEXT_TAB)
    ELSE Resize(<<KEY_LAST_TAB>>, keys_from_last_tab(tab), KEY_PREVIOUS_TAB)

change_tab_route_last_first(st, tab) ==
    LET current == st.tab
        previous == previous_tab_id(st)
        next == next_tab_id(st)
        last == last_tab
    IN  IF tab = current THEN [panic |-> FALSE, keys |-> <<>>]
        ELSE IF tab = last THEN [panic |-> FALSE, keys |-> <<KEY_LAST_TAB>>]
        ELSE IF tab \in FIRST_TAB..DIRECT_TABS
        THEN [panic |-> FALSE, keys |-> <<DirectKey(tab)>>]
        ELSE IF tab = next THEN [panic |-> FALSE, keys |-> <<KEY_NEXT_TAB>>]
        ELSE IF tab = previous
        THEN [panic |-> FALSE, keys |-> <<KEY_PREVIOUS_TAB>>]
        ELSE IF tab \in (DIRECT_TABS + 1)..(last - 1)
        THEN [panic |-> FALSE, keys |-> indirect_keys(current, tab)]
        ELSE [panic |-> TRUE, keys |-> <<>>]

\* The if/else chain of change_tab: what it presses for `tab`, or a panic.
\* press is called once with the keys joined by " ", or not at all.
change_tab_route(st, tab) ==
    LET current == st.tab
        previous == previous_tab_id(st)
        next == next_tab_id(st)
        last == last_tab
    IN  IF tab = current THEN [panic |-> FALSE, keys |-> <<>>]
        ELSE IF tab \in FIRST_TAB..DIRECT_TABS
        THEN [panic |-> FALSE, keys |-> <<DirectKey(tab)>>]
        ELSE IF tab = last THEN [panic |-> FALSE, keys |-> <<KEY_LAST_TAB>>]
        ELSE IF tab = next THEN [panic |-> FALSE, keys |-> <<KEY_NEXT_TAB>>]
        ELSE IF tab = previous
        THEN [panic |-> FALSE, keys |-> <<KEY_PREVIOUS_TAB>>]
        ELSE IF tab \in (DIRECT_TABS + 1)..(last - 1)
        THEN [panic |-> FALSE, keys |-> indirect_keys(current, tab)]
        ELSE [panic |-> TRUE, keys |-> <<>>]

\* ------------------------------------------------------- browser model
\* What one key does to a browser with n tabs whose active tab is b.
ApplyKey(b, key, n) ==
    IF key = KEY_NEXT_TAB THEN (IF b = n THEN 1 ELSE b + 1)
    ELSE IF key = KEY_PREVIOUS_TAB THEN (IF b = 1 THEN n ELSE b - 1)
    ELSE IF key = KEY_LAST_TAB THEN n
    ELSE IF \E k \in 1..DIRECT_TABS : key = CtrlDigit[k]
    THEN LET k == CHOOSE k \in 1..DIRECT_TABS : key = CtrlDigit[k]
         IN  IF k <= n THEN k ELSE b
    ELSE b

RECURSIVE ApplyKeys(_, _, _)
ApplyKeys(b, keys, n) ==
    IF keys = <<>> THEN b
    ELSE ApplyKeys(ApplyKey(b, Head(keys), n), Tail(keys), n)

\* ------------------------------------------------------- ActivityState
\* Browser::activity (notify_all wakes the autoscroll thread, whose wake-up
\* is AsWake below).
activity(st) == [st EXCEPT !.changed = now]

hold_unchecked(st) == activity([st EXCEPT !.held = TRUE])

hold(st) ==
    activity(IF ~st.paused /\ ~st.held THEN [st EXCEPT !.held = TRUE] ELSE st)

pause_toggle(st) ==
    activity(IF ~st.paused THEN [st EXCEPT !.held = FALSE, !.paused = TRUE]
             ELSE [st EXCEPT !.paused = FALSE])

\* The body of Browser::pause under the lock.
pause_state(st) ==
    activity(IF ~st.paused THEN [st EXCEPT !.held = FALSE, !.paused = TRUE]
             ELSE st)

unpause_keeps_held(st) ==
    IF st.paused THEN [st EXCEPT !.paused = FALSE] ELSE st

unpause(st) ==
    LET s1 == IF st.held THEN [st EXCEPT !.held = FALSE] ELSE st
    IN  IF s1.paused THEN [s1 EXCEPT !.paused = FALSE] ELSE s1

\* The value change_tab returns: whether the tracked tab changed.
change_tab_changed(st, tab) == st.tab # tab

\* The tail of change_tab, after the keys were pressed.
change_tab_finish(st, tab) ==
    LET s1 == activity(st)
    IN  IF s1.tab # tab THEN [s1 EXCEPT !.tab = tab] ELSE s1

Deadline_held_ignored(st, mult) ==
    st.changed + (IF st.paused THEN autoscroll_pause
                  ELSE autoscroll_delay * mult)

Deadline_pause_as_hold(st, mult) ==
    st.changed + (IF st.paused \/ st.held THEN autoscroll_hold
                  ELSE autoscroll_delay * mult)

Deadline_from_now(st, mult) ==
    now + (IF st.paused THEN autoscroll_pause
           ELSE IF st.held THEN autoscroll_hold
           ELSE autoscroll_delay * mult)

\* `next` of the autoscroll loop.
Deadline(st, mult) ==
    st.changed + (IF st.paused THEN autoscroll_pause
                  ELSE IF st.held THEN autoscroll_hold
                  ELSE autoscroll_delay * mult)

\* ------------------------------------------------------------- content
Fingerprints == {"f1", "f2"}
\* Eyes::see: None without a monitor or when the capture fails.
SeeOutcomes == IF monitors THEN Fingerprints \cup {"none"} ELSE {"none"}

tab_content_keeps_time(st, seen) ==
    IF seen = "none"
    THEN [st |-> st, some |-> FALSE, duration |-> 0, reload |-> FALSE]
    ELSE
    LET tab == st.tab
        resized == Resize(st.content, tab_count, [fp |-> "", at |-> -1])
        old == resized[tab - FIRST_TAB + 1]
        seenState == IF old.at = -1
                     THEN [fp |-> seen, at |-> now]
                     ELSE [old EXCEPT !.fp = seen]
        duration == now - seenState.at
        threshold == pages[tab - FIRST_TAB + 1]
        reload == threshold # -1 /\ duration >= threshold
        newState == IF reload THEN [seenState EXCEPT !.at = -1] ELSE seenState
    IN  [st |-> [st EXCEPT !.content =
                    [resized EXCEPT ![tab - FIRST_TAB + 1] = newState]],
         some |-> TRUE,
         duration |-> IF threshold # -1 THEN duration ELSE 0,
         reload |-> reload]

\* Browser::tab_content with see() = seen: the new state and the result.
tab_content(st, seen) ==
    IF seen = "none"
    THEN [st |-> st, some |-> FALSE, duration |-> 0, reload |-> FALSE]
    ELSE
    LET tab == st.tab
        resized == Resize(st.content, tab_count, [fp |-> "", at |-> -1])
        old == resized[tab - FIRST_TAB + 1]
        seenState == IF old.fp # seen \/ old.at = -1
                     THEN [fp |-> seen, at |-> now] ELSE old
        duration == now - seenState.at
        threshold == pages[tab - FIRST_TAB + 1]
        reload == threshold # -1 /\ duration >= threshold
        newState == IF reload THEN [seenState EXCEPT !.at = -1] ELSE seenState
    IN  [st |-> [st EXCEPT !.content =
                    [resized EXCEPT ![tab - FIRST_TAB + 1] = newState]],
         some |-> TRUE,
         duration |-> IF threshold # -1 THEN duration ELSE 0,
         reload |-> reload]

\* ------------------------------------------------------------- threads
IdleTh == [pc |-> "idle", op |-> "none", tab |-> 0, keys |-> <<>>,
           ok |-> TRUE, sync |-> FALSE, next |-> -1, ret |-> FALSE,
           seen |-> "none", some |-> FALSE, duration |-> 0, reload |-> FALSE]

UserKeys == {"x", "Up"}
\* A tab's name is modelled by its position in the urls table (Browser::new
\* gives the i-th distinct name the id i); 0 is a name that is not in it.
Names == 0..N
tabs_get_or_first(name) == IF name \in 1..N THEN name ELSE FIRST_TAB
tabs_get(name) == IF name \in 1..N THEN name ELSE -1

\* Entry into change_tab(st, tab) by thread t running operation op: the
\* route is computed and either nothing is pressed (pc "pressed": the chain
\* is over), or press is called, or the thread panics with the guard in
\* hand (the mutex is poisoned: no thread gets the state again).
EnterChangeTab(t, op, st, tab, sync) ==
    LET r == change_tab_route(st, tab)
    IN  /\ state' = st
        /\ lock' = t
        /\ th' = [th EXCEPT ![t] =
                [@ EXCEPT !.pc = IF r.panic THEN "panicked"
                                 ELSE IF r.keys = <<>> THEN "pressed"
                                 ELSE "press",
                          !.op = op, !.tab = tab, !.keys = r.keys,
                          !.ok = TRUE, !.sync = sync]]

Leave(t) ==
    /\ lock' = 0
    /\ th' = [th EXCEPT ![t] = IdleTh]

\* ------------------------------------------------------ Browser operations
\* An operation starts when its thread gets the state mutex.  The thread
\* keeps it over every step of the operation, press included, and gives it
\* back on return.

\* Browser::user_activity
user_activity(t) ==
    /\ th[t].pc = "idle" /\ MutexFree(lock)
    /\ state' = activity(state)
    /\ UNCHANGED <<kiosk, N, lock, hands, th, multiplier, now, browser,
                   monitors, pages, konami, exec, cfg>>

\* Browser::pause
pause(t) ==
    /\ th[t].pc = "idle" /\ MutexFree(lock)
    /\ state' = pause_state(state)
    /\ UNCHANGED <<kiosk, N, lock, hands, th, multiplier, now, browser,
                   monitors, pages, konami, exec, cfg>>

\* Browser::goto_previous_tab, up to the press of change_tab
goto_previous_tab(t) ==
    /\ th[t].pc = "idle" /\ MutexFree(lock)
    /\ EnterChangeTab(t, "goto_previous_tab", hold(unpause(state)),
                      previous_tab_id(state), FALSE)
    /\ UNCHANGED <<kiosk, N, hands, multiplier, now, browser,
                   monitors, pages, konami, exec, cfg>>

goto_next_tab_hold_first(t) ==
    /\ th[t].pc = "idle" /\ MutexFree(lock)
    /\ EnterChangeTab(t, "goto_next_tab", unpause(hold(state)),
                      next_tab_id(state), FALSE)
    /\ UNCHANGED <<kiosk, N, hands, multiplier, now, browser,
                   monitors, pages, konami, exec, cfg>>

\* Browser::goto_next_tab, up to the press of change_tab
goto_next_tab(t) ==
    /\ th[t].pc = "idle" /\ MutexFree(lock)
    /\ EnterChangeTab(t, "goto_next_tab", hold(unpause(state)),
                      next_tab_id(state), FALSE)
    /\ UNCHANGED <<kiosk, N, hands, multiplier, now, browser,
                   monitors, pages, konami, exec, cfg>>

\* The return of change_tab in goto_previous_tab and goto_next_tab.
goto_relative_return(t) ==
    /\ th[t].pc = "pressed"
    /\ th[t].op \in {"goto_previous_tab", "goto_next_tab"}
    /\ state' = change_tab_finish(state, th[t].tab)
    /\ Leave(t)
    /\ UNCHANGED <<kiosk, N, hands, multiplier, now, browser,
                   monitors, pages, konami, exec, cfg>>

\* Browser::reload_tab, up to its press
reload_tab(t) ==
    /\ th[t].pc = "idle" /\ MutexFree(lock)
    /\ lock' = t
    /\ th' = [th EXCEPT ![t] = [IdleTh EXCEPT !.pc = "press",
                    !.op = "reload_tab", !.keys = <<KEY_RELOAD>>]]
    /\ UNCHANGED <<kiosk, N, state, hands, multiplier, now, browser,
                   monitors, pages, konami, exec, cfg>>

reload_tab_return_hold(t) ==
    /\ th[t].pc = "pressed" /\ th[t].op = "reload_tab"
    /\ state' = hold(state)
    /\ Leave(t)
    /\ UNCHANGED <<kiosk, N, hands, multiplier, now, browser,
                   monitors, pages, konami, exec, cfg>>

\* Browser::reload_tab, after its press: activity()
reload_tab_return(t) ==
    /\ th[t].pc = "pressed" /\ th[t].op = "reload_tab"
    /\ state' = activity(state)
    /\ Leave(t)
    /\ UNCHANGED <<kiosk, N, hands, multiplier, now, browser,
                   monitors, pages, konami, exec, cfg>>

user_press_unlocked(t, keys) ==
    /\ th[t].pc = "idle" /\ MutexFree(lock)
    /\ th' = [th EXCEPT ![t] = [IdleTh EXCEPT !.pc = "press",
                    !.op = "user_press", !.keys = <<keys>>]]
    /\ UNCHANGED <<kiosk, N, state, lock, hands, multiplier, now, browser,
                   monitors, pages, konami, exec, cfg>>

\* Browser::user_press(keys), up to its press
user_press(t, keys) ==
    /\ th[t].pc = "idle" /\ MutexFree(lock)
    /\ lock' = t
    /\ th' = [th EXCEPT ![t] = [IdleTh EXCEPT !.pc = "press",
                    !.op = "user_press", !.keys = <<keys>>]]
    /\ UNCHANGED <<kiosk, N, state, hands, multiplier, now, browser,
                   monitors, pages, konami, exec, cfg>>

user_press_return(t) ==
    /\ th[t].pc = "pressed" /\ th[t].op = "user_press"
    /\ state' = activity(hold(state))
    /\ Leave(t)
    /\ UNCHANGED <<kiosk, N, hands, multiplier, now, browser,
                   monitors, pages, konami, exec, cfg>>

\* Browser::goto_by_name(name, sync), up to the press of change_tab; a name
\* that is not in the table only logs a warning.
goto_by_name(t, name, sync) ==
    /\ th[t].pc = "idle"
    /\ IF tabs_get(name) = -1
       THEN UNCHANGED <<state, lock, th>>
       ELSE /\ MutexFree(lock)
            /\ EnterChangeTab(t, "goto_by_name", state, tabs_get(name), sync)
    /\ UNCHANGED <<kiosk, N, hands, multiplier, now, browser,
                   monitors, pages, konami, exec, cfg>>

goto_by_name_return_unconditional(t) ==
    /\ th[t].pc = "pressed" /\ th[t].op = "goto_by_name"
    /\ state' = hold(unpause(change_tab_finish(state, th[t].tab)))
    /\ IF th[t].sync
       THEN /\ th' = [th EXCEPT ![t].pc = "settle"]
            /\ UNCHANGED lock
       ELSE Leave(t)
    /\ UNCHANGED <<kiosk, N, hands, multiplier, now, browser,
                   monitors, pages, konami, exec, cfg>>

\* The return of change_tab in goto_by_name: when it reports a change,
\* unpause, hold and, for sync, the settle sleep, still under the lock.
goto_by_name_return(t) ==
    /\ th[t].pc = "pressed" /\ th[t].op = "goto_by_name"
    /\ LET changedTab == change_tab_changed(state, th[t].tab)
           s1 == change_tab_finish(state, th[t].tab)
       IN  IF changedTab
           THEN /\ state' = hold(unpause(s1))
                /\ IF th[t].sync
                   THEN /\ th' = [th EXCEPT ![t].pc = "settle"]
                        /\ UNCHANGED lock
                   ELSE Leave(t)
           ELSE /\ state' = s1
                /\ Leave(t)
    /\ UNCHANGED <<kiosk, N, hands, multiplier, now, browser,
                   monitors, pages, konami, exec, cfg>>

\* thread::sleep(100 ms) of goto_by_name is over.
settle_return(t) ==
    /\ th[t].pc = "settle"
    /\ Leave(t)
    /\ UNCHANGED <<kiosk, N, state, hands, multiplier, now, browser,
                   monitors, pages, konami, exec, cfg>>

\* --------------------------------------------------------------- config
\* The reloader thread of Config::start: every minute it takes the config
\* mutex and reads the file.
Reloader == 1

config_reload ==
    /\ MutexFree(cfg)
    /\ cfg' = Reloader
    /\ UNCHANGED <<kiosk, N, state, lock, hands, th, multiplier, now, browser,
                   monitors, pages, konami, exec>>

\* The file is read, the guard is dropped and the thread sleeps again.
config_reloaded ==
    /\ cfg = Reloader
    /\ cfg' = 0
    /\ UNCHANGED <<kiosk, N, state, lock, hands, th, multiplier, now, browser,
                   monitors, pages, konami, exec>>

\* -------------------------------------------------------------- execute
\* The threads that call execute: the main device (Konami::entered), the
\* tabs device (a '!' key) and the MQTT handler (Clip::show).
MainDevice == 1
TabsDevice == 2
MqttHandler == 3
Requesters == {MainDevice, TabsDevice, MqttHandler}
Commands == 1..MaxCommands

\* The holder of `run` when it is command thread c.
CommandThread(c) == MqttHandler + c

\* issued counts the calls of execute made so far.
ExecNew ==
    [run |-> 0, req |-> [r \in Requesters |-> "idle"],
     cmd |-> [c \in Commands |-> "none"], issued |-> 0]

\* A further request still finds a command thread to spawn: no more than
\* MaxCommands requests are made in one behaviour.
Capacity == exec.issued < MaxCommands

\* Tabs::button_press on a '!' key (read under the config mutex), or
\* Clip::show: execute is called.
execute(r) ==
    /\ r # MainDevice
    /\ r = TabsDevice => MutexFree(cfg)
    /\ exec.req[r] = "idle" /\ Capacity
    /\ exec' = [exec EXCEPT !.req[r] = "run", !.issued = @ + 1]
    /\ UNCHANGED <<kiosk, N, state, lock, hands, th, multiplier, now, browser,
                   monitors, pages, konami, cfg>>

\* execute: run.lock() of the caller
execute_lock(r) ==
    /\ exec.req[r] = "run" /\ MutexFree(exec.run)
    /\ exec' = [exec EXCEPT !.run = r, !.req[r] = "activity"]
    /\ UNCHANGED <<kiosk, N, state, lock, hands, th, multiplier, now, browser,
                   monitors, pages, konami, cfg>>

execute_spawn_keeps_run(r) ==
    /\ exec.req[r] = "activity" /\ MutexFree(lock)
    /\ state' = activity(state)
    /\ LET c == CHOOSE c \in Commands :
                  /\ exec.cmd[c] = "none"
                  /\ \A d \in 1..(c - 1) : exec.cmd[d] # "none"
       IN  exec' = [exec EXCEPT !.req[r] = "idle", !.cmd[c] = "spawned"]
    /\ UNCHANGED <<kiosk, N, lock, hands, th, multiplier, now, browser,
                   monitors, pages, konami, cfg>>

\* execute: user_activity() under `run`, which is then released, and
\* thread::spawn; the caller returns.
execute_spawn(r) ==
    /\ exec.req[r] = "activity" /\ MutexFree(lock)
    /\ state' = activity(state)
    /\ LET c == CHOOSE c \in Commands :
                  /\ exec.cmd[c] = "none"
                  /\ \A d \in 1..(c - 1) : exec.cmd[d] # "none"
       IN  exec' = [exec EXCEPT !.run = 0, !.req[r] = "idle",
                                !.cmd[c] = "spawned"]
    /\ UNCHANGED <<kiosk, N, lock, hands, th, multiplier, now, browser,
                   monitors, pages, konami, cfg>>

command_lock_any(c) ==
    /\ exec.cmd[c] = "spawned"
    /\ exec' = [exec EXCEPT !.run = CommandThread(c), !.cmd[c] = "activity"]
    /\ UNCHANGED <<kiosk, N, state, lock, hands, th, multiplier, now, browser,
                   monitors, pages, konami, cfg>>

\* The spawned thread: run.lock(), kept to the end of the thread.
command_lock(c) ==
    /\ exec.cmd[c] = "spawned" /\ MutexFree(exec.run)
    /\ exec' = [exec EXCEPT !.run = CommandThread(c), !.cmd[c] = "activity"]
    /\ UNCHANGED <<kiosk, N, state, lock, hands, th, multiplier, now, browser,
                   monitors, pages, konami, cfg>>

\* The spawned thread: user_activity(), then the command is started.
command_start(c) ==
    /\ exec.cmd[c] = "activity" /\ MutexFree(lock)
    /\ state' = activity(state)
    /\ exec' = [exec EXCEPT !.cmd[c] = "running"]
    /\ UNCHANGED <<kiosk, N, lock, hands, th, multiplier, now, browser,
                   monitors, pages, konami, cfg>>

\* Command::output returns: the command is over and the thread ends,
\* dropping its guard of `run`.
command_finish(c) ==
    /\ exec.cmd[c] = "running"
    /\ exec' = [exec EXCEPT !.run = 0, !.cmd[c] = "none"]
    /\ UNCHANGED <<kiosk, N, state, lock, hands, th, multiplier, now, browser,
                   monitors, pages, konami, cfg>>

\* --------------------------------------------------------------- Konami
\* Konami::KONAMI_CODE, a symbol per element
KONAMI_CODE == <<"U", "U", "D", "D", "L", "R", "L", "R", "B", "A", "S">>

\* The symbols the handlers feed: the four directions, the five mapped
\* buttons and '*' for every other button.
Symbols == {"U", "D", "L", "R", "X", "A", "B", "Y", "S", "*"}

\* Option<bool> of Konami::add
Matching == "None"
Complete == "Some(true)"
Reset == "Some(false)"

\* `while history.len() > n { history.pop_front(); }`
RECURSIVE pop_front_to(_, _)
pop_front_to(history, n) ==
    IF Len(history) > n THEN pop_front_to(Tail(history), n) ELSE history

add_keeps_window(history, key) ==
    LET h == pop_front_to(Append(history, key), Len(KONAMI_CODE))
    IN  IF h = SubSeq(KONAMI_CODE, 1, Len(h))
        THEN IF Len(h) = Len(KONAMI_CODE)
             THEN [history |-> h, result |-> Complete]
             ELSE [history |-> h, result |-> Matching]
        ELSE [history |-> pop_front_to(h, 1), result |-> Reset]

add_keeps_mismatch(history, key) ==
    LET h == pop_front_to(Append(history, key), Len(KONAMI_CODE))
    IN  IF h = SubSeq(KONAMI_CODE, 1, Len(h))
        THEN IF Len(h) = Len(KONAMI_CODE)
             THEN [history |-> <<>>, result |-> Complete]
             ELSE [history |-> h, result |-> Matching]
        ELSE [history |-> h, result |-> Reset]

\* Konami::add on the window `history`: the new window and the result.
add(history, key) ==
    LET h == pop_front_to(Append(history, key), Len(KONAMI_CODE))
    IN  IF h = SubSeq(KONAMI_CODE, 1, Len(h))
        THEN IF Len(h) = Len(KONAMI_CODE)
             THEN [history |-> <<>>, result |-> Complete]
             ELSE [history |-> h, result |-> Matching]
        ELSE [history |-> pop_front_to(h, 1), result |-> Reset]

\* The first k symbols of the code.
Prefix(k) == SubSeq(KONAMI_CODE, 1, k)

\* The stream of symbols fed so far, as far as an occurrence of the code
\* depends on it: the longest end of the stream that begins the code.  With
\* `tail` that end before key was fed, this is the end after it.
stream_tail(tail, key) ==
    LET s == Append(IF Len(tail) = Len(KONAMI_CODE) THEN Tail(tail) ELSE tail,
                    key)
        k == CHOOSE k \in 0..Len(s) :
                /\ SubSeq(s, Len(s) - k + 1, Len(s)) = Prefix(k)
                /\ \A j \in (k + 1)..Len(s) :
                      SubSeq(s, Len(s) - j + 1, Len(s)) # Prefix(j)
    IN  Prefix(k)

\* No symbol fed yet; `command`: main.konami_command is configured.
KonamiNew(command) ==
    [history |-> <<>>, key |-> "-", result |-> "-", entered |-> 0,
     requested |-> 0, command |-> command, tail |-> <<>>]

\* Konami::add(key) by the main device's thread, with Konami::entered: when
\* the code is complete and a command is configured, execute is called (the
\* history mutex is held until it returns).
Konami_feed(key) ==
    LET r == add(konami.history, key)
        run == r.result = Complete /\ konami.command
    IN  /\ exec.req[MainDevice] = "idle"
        /\ konami.entered < MaxEntered
        /\ r.result = Complete => MutexFree(cfg)
        /\ run => Capacity
        /\ konami' = [konami EXCEPT
                !.history = r.history, !.key = key, !.result = r.result,
                !.tail = stream_tail(@, key),
                !.entered = IF r.result = Complete THEN @ + 1 ELSE @,
                !.requested = IF run THEN @ + 1 ELSE @]
        /\ exec' = IF run THEN [exec EXCEPT !.req[MainDevice] = "run",
                                             !.issued = @ + 1]
                   ELSE exec

Konami_add(key) ==
    /\ Konami_feed(key)
    /\ UNCHANGED <<kiosk, N, state, lock, hands, th, multiplier, now,
                   browser, monitors, pages, cfg>>

\* ----------------------------------------------------------- navigation
\* The buttons of the navigation device (Device::handle_event gives the ids
\* 0..24; the ids above 9 are handled like 6 and 7) and its D-pad.
Buttons == 0..9
Directions == {"Up", "Down", "Left", "Right"}

\* The symbol Navigation::button_press feeds for button id.
ButtonSymbol(id) ==
    CASE id = 0 -> "X" [] id = 1 -> "A" [] id = 2 -> "B" [] id = 3 -> "Y"
      [] id = 9 -> "S" [] OTHER -> "*"

\* The symbol Navigation::dpad_press feeds for dir.
DpadSymbol(dir) ==
    CASE dir = "Up" -> "U" [] dir = "Down" -> "D" [] dir = "Left" -> "L"
      [] dir = "Right" -> "R"

\* A call of a Browser operation, or none.
NoCall == [op |-> "none", keys |-> ""]
Call(op) == [op |-> op, keys |-> ""]
UserPress(keys) == [op |-> "user_press", keys |-> keys]

\* The arm of `match id` under Some(false).
ButtonCall(id) ==
    CASE id = 0 -> UserPress("x") [] id = 1 -> UserPress("a")
      [] id = 2 -> UserPress("b") [] id = 3 -> UserPress("y")
      [] id = 4 -> Call("goto_previous_tab") [] id = 5 -> Call("goto_next_tab")
      [] id = 8 -> Call("reload_tab") [] id = 9 -> Call("pause")
      [] OTHER -> NoCall

\* The arm of `match dir`.
DpadCall(dir) ==
    CASE dir = "Up" -> UserPress("Up") [] dir = "Down" -> UserPress("Down")
      [] dir = "Left" -> Call("goto_previous_tab")
      [] dir = "Right" -> Call("goto_next_tab")

\* Thread t calls the Browser operation of `call`: the operation starts as
\* user_press, goto_previous_tab, goto_next_tab, reload_tab and pause above
\* do; no call leaves the Browser alone.
Invoke(t, call) ==
    IF call.op = "none" THEN UNCHANGED <<state, lock, th>>
    ELSE /\ MutexFree(lock)
         /\ CASE call.op = "user_press" ->
                    /\ lock' = t
                    /\ th' = [th EXCEPT ![t] = [IdleTh EXCEPT !.pc = "press",
                                    !.op = "user_press", !.keys = <<call.keys>>]]
                    /\ state' = state
              [] call.op = "goto_previous_tab" ->
                    EnterChangeTab(t, "goto_previous_tab", hold(unpause(state)),
                                   previous_tab_id(state), FALSE)
              [] call.op = "goto_next_tab" ->
                    EnterChangeTab(t, "goto_next_tab", hold(unpause(state)),
                                   next_tab_id(state), FALSE)
              [] call.op = "reload_tab" ->
                    /\ lock' = t
                    /\ th' = [th EXCEPT ![t] = [IdleTh EXCEPT !.pc = "press",
                                    !.op = "reload_tab", !.keys = <<KEY_RELOAD>>]]
                    /\ state' = state
              [] call.op = "pause" ->
                    /\ state' = pause_state(state)
                    /\ UNCHANGED <<lock, th>>

Navigation_button_press_any_result(id) ==
    /\ th[MainDevice].pc = "idle"
    /\ Konami_feed(ButtonSymbol(id))
    /\ Invoke(MainDevice, ButtonCall(id))
    /\ UNCHANGED <<kiosk, N, hands, multiplier, now, browser, monitors,
                   pages, cfg>>

\* Navigation::button_press(id) by the main device's thread: the symbol is
\* fed and, when add answers Some(false), the button's operation is called.
Navigation_button_press(id) ==
    /\ th[MainDevice].pc = "idle"
    /\ Konami_feed(ButtonSymbol(id))
    /\ Invoke(MainDevice,
              IF add(konami.history, ButtonSymbol(id)).result = Reset
              THEN ButtonCall(id) ELSE NoCall)
    /\ UNCHANGED <<kiosk, N, hands, multiplier, now, browser, monitors,
                   pages, cfg>>

\* Navigation::dpad_press(dir) by the main device's thread: the symbol is
\* fed, the answer is dropped and the direction's operation is called.
Navigation_dpad_press(dir) ==
    /\ th[MainDevice].pc = "idle"
    /\ Konami_feed(DpadSymbol(dir))
    /\ Invoke(MainDevice, DpadCall(dir))
    /\ UNCHANGED <<kiosk, N, hands, multiplier, now, browser, monitors,
                   pages, cfg>>

\* ---------------------------------------------------------------- press
\* Browser::press: take the hands mutex.
press_enter(t) ==
    /\ th[t].pc = "press" /\ MutexFree(hands)
    /\ hands' = t
    /\ th' = [th EXCEPT ![t].pc = "inject"]
    /\ UNCHANGED <<kiosk, N, state, lock, multiplier, now, browser,
                   monitors, pages, konami, exec, cfg>>

\* Hands::press: the keys reach the browser, or the injection fails and the
\* error is logged; either way press returns () and the mutex is released.
press_return(t) ==
    /\ th[t].pc = "inject"
    /\ \E ok \in BOOLEAN :
          /\ browser' = IF ok THEN ApplyKeys(browser, th[t].keys, N)
                        ELSE browser
          /\ th' = [th EXCEPT ![t].pc = "pressed", ![t].ok = ok]
    /\ hands' = 0
    /\ UNCHANGED <<kiosk, N, state, lock, multiplier, now,
                   monitors, pages, konami, exec, cfg>>

\* ----------------------------------------------------------- autoscroll
\* The thread starts (kiosk mode only) and takes the state mutex for good:
\* it gives it up only inside wait_timeout.
autoscroll_start ==
    /\ kiosk /\ th[Autoscroll].pc = "start" /\ MutexFree(lock)
    /\ lock' = Autoscroll
    /\ multiplier' = 2
    /\ th' = [th EXCEPT ![Autoscroll].pc = "eval"]
    /\ UNCHANGED <<kiosk, N, state, hands, now, browser,
                   monitors, pages, konami, exec, cfg>>

autoscroll_eval_first_only ==
    /\ th[Autoscroll].pc = "eval" /\ MutexFree(cfg)
    /\ multiplier' = 1
    /\ LET next == Deadline(state, multiplier)
       IN  IF now < next
           THEN /\ lock' = 0
                /\ th' = [th EXCEPT ![Autoscroll].pc = "wait",
                                     ![Autoscroll].next = next]
           ELSE /\ th' = [th EXCEPT ![Autoscroll] =
                        [IdleTh EXCEPT !.pc = "see", !.op = "autoscroll",
                                       !.tab = next_tab_id(state)]]
                /\ UNCHANGED lock
    /\ UNCHANGED <<kiosk, N, state, hands, now, browser,
                   monitors, pages, konami, exec, cfg>>

\* The head of the loop: compute `next` (the durations are read under the
\* config mutex); sleep when it is ahead, else the advance is due:
\* multiplier = 1 and the target is the next tab.
autoscroll_eval ==
    /\ th[Autoscroll].pc = "eval" /\ MutexFree(cfg)
    /\ LET next == Deadline(state, multiplier)
       IN  IF now < next
           THEN /\ lock' = 0
                /\ th' = [th EXCEPT ![Autoscroll].pc = "wait",
                                     ![Autoscroll].next = next]
                /\ UNCHANGED multiplier
           ELSE /\ multiplier' = 1
                /\ th' = [th EXCEPT ![Autoscroll] =
                        [IdleTh EXCEPT !.pc = "see", !.op = "autoscroll",
                                       !.tab = next_tab_id(state)]]
                /\ UNCHANGED lock
    /\ UNCHANGED <<kiosk, N, state, hands, now, browser,
                   monitors, pages, konami, exec, cfg>>

\* wait_timeout returns (timeout, notify_all or a spurious wake-up) once the
\* mutex can be taken again.
autoscroll_wake ==
    /\ th[Autoscroll].pc = "wait" /\ MutexFree(lock)
    /\ lock' = Autoscroll
    /\ th' = [th EXCEPT ![Autoscroll].pc = "eval"]
    /\ UNCHANGED <<kiosk, N, state, hands, multiplier, now, browser,
                   monitors, pages, konami, exec, cfg>>

autoscroll_see_no_reload ==
    /\ th[Autoscroll].pc = "see"
    /\ \E seen \in SeeOutcomes :
          LET r == tab_content(state, seen)
          IN  /\ state' = r.st
              /\ th' = [th EXCEPT ![Autoscroll].pc = "advance",
                        ![Autoscroll].seen = seen,
                        ![Autoscroll].some = r.some,
                        ![Autoscroll].duration = r.duration,
                        ![Autoscroll].reload = r.reload,
                        ![Autoscroll].keys = <<>>,
                        ![Autoscroll].op = "autoscroll"]
    /\ UNCHANGED <<kiosk, N, lock, hands, multiplier, now, browser,
                   monitors, pages, konami, exec, cfg>>

\* tab_content: the screen capture returns; a due reload is pressed first.
autoscroll_see ==
    /\ th[Autoscroll].pc = "see"
    /\ \E seen \in SeeOutcomes :
          LET r == tab_content(state, seen)
          IN  /\ state' = r.st
              /\ th' = [th EXCEPT ![Autoscroll].pc =
                            IF r.reload THEN "press" ELSE "advance",
                        ![Autoscroll].seen = seen,
                        ![Autoscroll].some = r.some,
                        ![Autoscroll].duration = r.duration,
                        ![Autoscroll].reload = r.reload,
                        ![Autoscroll].keys =
                            IF r.reload THEN <<KEY_RELOAD>> ELSE <<>>,
                        ![Autoscroll].op =
                            IF r.reload THEN "autoscroll_reload"
                            ELSE "autoscroll"]
    /\ UNCHANGED <<kiosk, N, lock, hands, multiplier, now, browser,
                   monitors, pages, konami, exec, cfg>>

\* unpause and the entry into change_tab(state, tab)
autoscroll_advance ==
    /\ \/ th[Autoscroll].pc = "advance"
       \/ th[Autoscroll].pc = "pressed" /\ th[Autoscroll].op = "autoscroll_reload"
    /\ EnterChangeTab(Autoscroll, "autoscroll", unpause(state),
                      th[Autoscroll].tab, FALSE)
    /\ UNCHANGED <<kiosk, N, hands, multiplier, now, browser,
                   monitors, pages, konami, exec, cfg>>

\* The return of change_tab: back to the head of the loop.
autoscroll_return ==
    /\ th[Autoscroll].pc = "pressed" /\ th[Autoscroll].op = "autoscroll"
    /\ state' = change_tab_finish(state, th[Autoscroll].tab)
    /\ th' = [th EXCEPT ![Autoscroll] = [IdleTh EXCEPT !.pc = "eval"]]
    /\ UNCHANGED <<kiosk, N, lock, hands, multiplier, now, browser,
                   monitors, pages, konami, exec, cfg>>

\* ----------------------------------------------------------------- time
Tick ==
    /\ now < MaxTime
    /\ now' = now + 1
    /\ UNCHANGED <<kiosk, N, state, lock, hands, th, multiplier, browser,
                   monitors, pages, konami, exec, cfg>>

\* An instant one tick further in the past; None (-1) stays None, and all
\* instants MaxTime or more ago are one.
Older(at) == IF at <= 0 THEN at ELSE at - 1

\* The clock goes on past MaxTime: `now` keeps its number and every stored
\* instant moves one tick into the past.  No duration of the program is
\* longer than MaxTime, so a deadline is due for the moved instants exactly
\* when it is for the real ones.
TickShift ==
    /\ now = MaxTime
    /\ state' = [state EXCEPT
            !.changed = Older(@),
            !.content = [i \in 1..Len(@) |-> [@[i] EXCEPT !.at = Older(@)]]]
    /\ th' = [th EXCEPT ![Autoscroll].next = Older(@)]
    /\ UNCHANGED <<kiosk, N, lock, hands, multiplier, now, browser,
                   monitors, pages, konami, exec, cfg>>

\* -------------------------------------------------------- specification
\* BrowserState::default and Browser::new
InitState == [tab |-> FIRST_TAB, changed |-> 0, held |-> FALSE,
              paused |-> FALSE, content |-> <<>>]

Init ==
    /\ kiosk \in BOOLEAN
    /\ N \in 1..MaxTabs
    /\ state = InitState
    /\ lock = 0
    /\ hands = 0
    /\ th = [t \in Threads |->
                IF t = Autoscroll THEN [IdleTh EXCEPT !.pc = "start"]
                ELSE IdleTh]
    /\ multiplier = 2
    /\ now = 0
    /\ browser = FIRST_TAB
    /\ monitors = FALSE
    /\ pages = [i \in 1..N |-> -1]
    /\ konami = KonamiNew(FALSE)
    /\ exec = ExecNew
    /\ cfg = 0

Next ==
    \/ \E t \in Users : user_activity(t)
    \/ \E t \in Users : pause(t)
    \/ \E t \in Users : goto_previous_tab(t)
    \/ \E t \in Users : goto_next_tab(t)
    \/ \E t \in Users : goto_relative_return(t)
    \/ \E t \in Users : reload_tab(t)
    \/ \E t \in Users : reload_tab_return(t)
    \/ \E t \in Users, keys \in UserKeys : user_press(t, keys)
    \/ \E t \in Users : user_press_return(t)
    \/ \E t \in Users, name \in Names, sync \in BOOLEAN :
          goto_by_name(t, name, sync)
    \/ \E t \in Users : goto_by_name_return(t)
    \/ \E t \in Users : settle_return(t)
    \/ \E t \in Threads : press_enter(t)
    \/ \E t \in Threads : press_return(t)
    \/ autoscroll_start
    \/ autoscroll_eval
    \/ autoscroll_wake
    \/ autoscroll_see
    \/ autoscroll_advance
    \/ autoscroll_return
    \/ Tick

Spec == Init /\ [][Next]_vars

\* ------------------------------------------------- kiosk mode, for ever
\* Kiosk mode with one input thread and a clock that never stops.  The
\* autoscroll thread is scheduled, time passes, and every call that was
\* started returns: Hands::press and the operations of the input thread.
InitLive ==
    /\ kiosk = TRUE
    /\ N \in 1..MaxTabs
    /\ state = InitState
    /\ lock = 0
    /\ hands = 0
    /\ th = [t \in Threads |->
                IF t = Autoscroll THEN [IdleTh EXCEPT !.pc = "start"]
                ELSE IdleTh]
    /\ multiplier = 2
    /\ now = 0
    /\ browser = FIRST_TAB
    /\ monitors = FALSE
    /\ pages = [i \in 1..N |-> -1]
    /\ konami = KonamiNew(FALSE)
    /\ exec = ExecNew
    /\ cfg = 0

\* The steps that end an operation of input thread t once it has started.
Finish(t) ==
    \/ goto_relative_return(t)
    \/ user_press_return(t)
    \/ press_enter(t)
    \/ press_return(t)

\* The steps of the autoscroll thread.
AutoscrollStep ==
    \/ autoscroll_start
    \/ autoscroll_eval
    \/ autoscroll_wake
    \/ autoscroll_see
    \/ autoscroll_advance
    \/ autoscroll_return
    \/ press_enter(Autoscroll)
    \/ press_return(Autoscroll)

NextLive ==
    \/ user_activity(1)
    \/ pause(1)
    \/ goto_next_tab(1)
    \/ \E keys \in UserKeys : user_press(1, keys)
    \/ Finish(1)
    \/ AutoscrollStep
    \/ Tick
    \/ TickShift

SpecLive ==
    /\ InitLive /\ [][NextLive]_vars
    /\ WF_vars(Tick \/ TickShift)
    /\ SF_vars(AutoscrollStep)
    /\ WF_vars(Finish(1))

\* ------------------------------------------------------ all the threads
\* Kiosk mode with every kind of thread: an input thread inside Browser
\* operations, the autoscroll loop, the three callers of execute, the
\* command threads and the config reloader.  The input threads of Browser
\* operations and the callers of execute are separate threads here, which
\* gives more interleavings than the devices' threads have.  The main device
\* has fed the first ten symbols of the code and goes on with S; the table has
\* two tabs, the fewest with which a navigation presses a key.  The
\* program has run for MaxTime without activity and the clock stands still:
\* an auto-advance is due at once, and none after the next activity.
LastSymbols == {"S"}

InitAll ==
    /\ kiosk = TRUE
    /\ N = 2
    /\ state = InitState
    /\ lock = 0
    /\ hands = 0
    /\ th = [t \in Threads |->
                IF t = Autoscroll THEN [IdleTh EXCEPT !.pc = "start"]
                ELSE IdleTh]
    /\ multiplier = 2
    /\ now = MaxTime
    /\ browser = FIRST_TAB
    /\ monitors = FALSE
    /\ pages = [i \in 1..N |-> -1]
    /\ konami = [KonamiNew(TRUE) EXCEPT
                    !.history = Prefix(10), !.tail = Prefix(10),
                    !.key = KONAMI_CODE[10], !.result = Matching]
    /\ exec = ExecNew
    /\ cfg = 0

\* The steps of execute's callers and of the command threads after the call.
ExecStep ==
    \/ \E r \in Requesters : execute_lock(r)
    \/ \E r \in Requesters : execute_spawn(r)
    \/ \E c \in Commands : command_lock(c)
    \/ \E c \in Commands : command_start(c)
    \/ \E c \in Commands : command_finish(c)

NextAll ==
    \/ \E key \in LastSymbols : Konami_add(key)
    \/ execute(TabsDevice)
    \/ ExecStep
    \/ config_reload
    \/ config_reloaded
    \/ goto_next_tab(1)
    \/ goto_relative_return(1)
    \/ press_enter(1)
    \/ press_return(1)
    \/ AutoscrollStep

\* The steps of execute and of a command thread that take the ActivityState
\* lock; only the holder of `run` is at one of them.
StateLockStep ==
    \/ \E r \in Requesters : execute_spawn(r)
    \/ \E c \in Commands : command_start(c)

SpecAll ==
    /\ InitAll /\ [][NextAll]_vars
    /\ WF_vars(config_reloaded)
    /\ WF_vars(goto_relative_return(1) \/ press_enter(1) \/ press_return(1))
    /\ \A r \in Requesters : WF_vars(execute_lock(r))
    /\ \A c \in Commands :
          WF_vars(command_lock(c)) /\ WF_vars(command_finish(c))
    /\ SF_vars(StateLockStep)
    /\ SF_vars(AutoscrollStep)

\* ------------------------------------------ every injection succeeds
\* Hands::press when the injection succeeds: the keys reach the browser.
press_delivered(t) ==
    /\ press_return(t)
    /\ th'[t].ok

\* Kiosk mode with one input thread that navigates (previous, next, by
\* name) while the autoscroll thread advances; every injection succeeds.
\* The program has run for MaxTime and the clock goes on.
InitTrack ==
    /\ kiosk = TRUE
    /\ N \in 1..RouteMaxTabs
    /\ state = InitState
    /\ lock = 0
    /\ hands = 0
    /\ th = [t \in Threads |->
                IF t = Autoscroll THEN [IdleTh EXCEPT !.pc = "start"]
                ELSE IdleTh]
    /\ multiplier = 2
    /\ now = MaxTime
    /\ browser = FIRST_TAB
    /\ monitors = FALSE
    /\ pages = [i \in 1..N |-> -1]
    /\ konami = KonamiNew(FALSE)
    /\ exec = ExecNew
    /\ cfg = 0

NextTrack ==
    \/ goto_previous_tab(1)
    \/ goto_next_tab(1)
    \/ goto_relative_return(1)
    \/ \E name \in Names, sync \in BOOLEAN : goto_by_name(1, name, sync)
    \/ goto_by_name_return(1)
    \/ settle_return(1)
    \/ \E t \in {1, Autoscroll} : press_enter(t)
    \/ \E t \in {1, Autoscroll} : press_delivered(t)
    \/ autoscroll_start
    \/ autoscroll_eval
    \/ autoscroll_wake
    \/ autoscroll_see
    \/ autoscroll_advance
    \/ autoscroll_return
    \/ TickShift

SpecTrack == InitTrack /\ [][NextTrack]_vars

\* ------------------------------------------------ the navigation device
\* The main device's thread alone: button and D-pad presses and the Browser
\* operations they call.  No Konami command is configured and the clock
\* stands still.
InitPad ==
    /\ kiosk = FALSE
    /\ N \in 1..MaxTabs
    /\ state = InitState
    /\ lock = 0
    /\ hands = 0
    /\ th = [t \in Threads |-> IdleTh]
    /\ multiplier = 2
    /\ now = 0
    /\ browser = FIRST_TAB
    /\ monitors = FALSE
    /\ pages = [i \in 1..N |-> -1]
    /\ konami = KonamiNew(FALSE)
    /\ exec = ExecNew
    /\ cfg = 0

NextPad ==
    \/ \E id \in Buttons : Navigation_button_press(id)
    \/ \E dir \in Directions : Navigation_dpad_press(dir)
    \/ goto_relative_return(MainDevice)
    \/ user_press_return(MainDevice)
    \/ reload_tab_return(MainDevice)
    \/ press_enter(MainDevice)
    \/ press_return(MainDevice)

SpecPad == InitPad /\ [][NextPad]_vars

\* ------------------------------------------- change_tab as a function
\* change_tab applied once to every (tab count, current tab, target), the
\* targets 0 and N + 1 included.
route_call(t, tab) ==
    /\ th[t].pc = "idle" /\ MutexFree(lock)
    /\ EnterChangeTab(t, "change_tab", state, tab, FALSE)
    /\ UNCHANGED <<kiosk, N, hands, multiplier, now, browser,
                   monitors, pages, konami, exec, cfg>>

route_return(t) ==
    /\ th[t].pc = "pressed" /\ th[t].op = "change_tab"
    /\ state' = change_tab_finish(state, th[t].tab)
    /\ lock' = 0
    /\ th' = [th EXCEPT ![t].pc = "done",
                         ![t].ret = change_tab_changed(state, th[t].tab)]
    /\ UNCHANGED <<kiosk, N, hands, multiplier, now, browser,
                   monitors, pages, konami, exec, cfg>>

InitRoute ==
    /\ kiosk = FALSE
    /\ N \in 1..RouteMaxTabs
    /\ \E current \in 1..N :
          /\ state = [InitState EXCEPT !.tab = current]
          /\ browser = current
    /\ lock = 0
    /\ hands = 0
    /\ th = [t \in Threads |-> IdleTh]
    /\ multiplier = 2
    /\ now = 0
    /\ monitors = FALSE
    /\ pages = [i \in 1..N |-> -1]
    /\ konami = KonamiNew(FALSE)
    /\ exec = ExecNew
    /\ cfg = 0

NextRoute ==
    \/ \E tab \in 0..(N + 1) : route_call(1, tab)
    \/ press_enter(1)
    \/ press_return(1)
    \/ route_return(1)

SpecRoute == InitRoute /\ [][NextRoute]_vars

\* ------------------------------------- one input thread, many tabs
\* The navigation of one input thread over up to RouteMaxTabs tabs, without
\* the autoscroll thread.
InitNav ==
    /\ kiosk = FALSE
    /\ N \in 1..RouteMaxTabs
    /\ state = InitState
    /\ lock = 0
    /\ hands = 0
    /\ th = [t \in Threads |-> IdleTh]
    /\ multiplier = 2
    /\ now = 0
    /\ browser = FIRST_TAB
    /\ monitors = FALSE
    /\ pages = [i \in 1..N |-> -1]
    /\ konami = KonamiNew(FALSE)
    /\ exec = ExecNew
    /\ cfg = 0

NextNav ==
    \/ goto_previous_tab(1)
    \/ goto_next_tab(1)
    \/ goto_relative_return(1)
    \/ pause(1)
    \/ press_enter(1)
    \/ press_return(1)
    \/ Tick

SpecNav == InitNav /\ [][NextNav]_vars

\* ------------------------------------------------ content observation
\* Kiosk mode with a screen to capture or none, every reload threshold from
\* none (-1) to ReloadMax, and one input thread pressing keys.
Thresholds == {-1} \cup 0..ReloadMax

InitContent ==
    /\ kiosk = TRUE
    /\ N \in 1..ContentMaxTabs
    /\ state = InitState
    /\ lock = 0
    /\ hands = 0
    /\ th = [t \in Threads |->
                IF t = Autoscroll THEN [IdleTh EXCEPT !.pc = "start"]
                ELSE IdleTh]
    /\ multiplier = 2
    /\ now = 0
    /\ browser = FIRST_TAB
    /\ monitors \in BOOLEAN
    /\ pages \in [1..N -> Thresholds]
    /\ konami = KonamiNew(FALSE)
    /\ exec = ExecNew
    /\ cfg = 0

NextContent ==
    \/ \E keys \in UserKeys : user_press(1, keys)
    \/ user_press_return(1)
    \/ \E t \in {1, Autoscroll} : press_enter(t)
    \/ \E t \in {1, Autoscroll} : press_return(t)
    \/ autoscroll_start
    \/ autoscroll_eval
    \/ autoscroll_wake
    \/ autoscroll_see
    \/ autoscroll_advance
    \/ autoscroll_return
    \/ Tick

SpecContent == InitContent /\ [][NextContent]_vars

\* --------------------------------------------- the Konami code matcher
\* One device feeding symbols to Konami::add, with the threads execute
\* spawns and the clock.
InitKonami ==
    /\ kiosk = FALSE
    /\ N = 1
    /\ state = InitState
    /\ lock = 0
    /\ hands = 0
    /\ th = [t \in Threads |-> IdleTh]
    /\ multiplier = 2
    /\ now = 0
    /\ browser = FIRST_TAB
    /\ monitors = FALSE
    /\ pages = [i \in 1..N |-> -1]
    /\ \E command \in BOOLEAN : konami = KonamiNew(command)
    /\ exec = ExecNew
    /\ cfg = 0

NextKonami ==
    \/ \E key \in Symbols : Konami_add(key)
    \/ execute_lock(MainDevice)
    \/ execute_spawn(MainDevice)
    \/ \E c \in Commands : command_lock(c)
    \/ \E c \in Commands : command_start(c)
    \/ \E c \in Commands : command_finish(c)
    \/ Tick

SpecKonami == InitKonami /\ [][NextKonami]_vars

\* ------------------------------------------------- the command executor
\* The three callers of execute and the command threads they spawn.
NextExec ==
    \/ \E key \in Symbols : Konami_add(key)
    \/ \E r \in Requesters : execute(r)
    \/ \E r \in Requesters : execute_lock(r)
    \/ \E r \in Requesters : execute_spawn(r)
    \/ \E c \in Commands : command_lock(c)
    \/ \E c \in Commands : command_start(c)
    \/ \E c \in Commands : command_finish(c)

SpecExec == InitKonami /\ [][NextExec]_vars

\* ---------------------------------------------------------------- claims
\* The four primitives of the browser and the least number of them that
\* takes a browser with n tabs from the tabs of `from` to tab `to`.
Primitives == {KEY_NEXT_TAB, KEY_PREVIOUS_TAB, KEY_LAST_TAB}
                  \cup {CtrlDigit[k] : k \in 1..DIRECT_TABS}

RECURSIVE ShortestLen(_, _, _, _)
ShortestLen(from, to, n, d) ==
    IF to \in from THEN d
    ELSE ShortestLen(from \cup {ApplyKey(b, k, n) : b \in from, k \in Primitives},
                     to, n, d + 1)

\* C1: with N >= 9 tabs and a target in 1..N, the keys change_tab sends,
\* applied to the browser model starting at the current tab, end at the
\* target, and no sequence of the four primitives reaching it is shorter.
C1_RouteReachesTargetShortest ==
    \A t \in Threads :
        (/\ th[t].op = "change_tab" /\ th[t].pc = "pressed"
         /\ N >= 9 /\ th[t].tab \in 1..N)
        => /\ ApplyKeys(state.tab, th[t].keys, N) = th[t].tab
           /\ Len(th[t].keys) = ShortestLen({state.tab}, th[t].tab, N, 0)
           /\ \A i \in 1..Len(th[t].keys) : th[t].keys[i] \in Primitives

\* A three-key route to an indirect tab (a jump and two steps) was pressed.
C1_Witness ==
    \E t \in Threads :
        /\ th[t].op = "change_tab" /\ th[t].pc = "pressed" /\ th[t].ok
        /\ N >= 9 /\ Len(th[t].keys) = 3
        /\ th[t].keys[1] \in {KEY_LAST_TAB, key_last_direct_tab}
        /\ browser = th[t].tab

\* C2: with N >= 1 tabs, 1 <= state.tab <= N in every reachable state.
C2_TabInRange == N >= 1 /\ state.tab >= 1 /\ state.tab <= N

\* goto_next_tab on the last tab is about to store the wrapped target 1.
C2_Witness ==
    \E t \in Users :
        /\ th[t].op = "goto_next_tab" /\ th[t].pc = "pressed"
        /\ N >= 2 /\ state.tab = N /\ th[t].tab = FIRST_TAB

\* The duration the autoscroll deadline is made of, as the claim states it.
DueAfter(st, mult) ==
    IF st.paused THEN autoscroll_pause
    ELSE IF st.held THEN autoscroll_hold
    ELSE autoscroll_delay * mult

\* The step of the autoscroll loop that decides to advance.
AutoAdvance == th[Autoscroll].pc = "eval" /\ th'[Autoscroll].pc = "see"

\* C3: the autoscroll loop advances only at an instant now >= changed + D,
\* D being the pause duration if paused, the hold duration if held and not
\* paused, delay * multiplier otherwise, all read at that instant; before
\* that instant (a stale deadline included) it goes back to sleep.
C3_AdvanceOnlyWhenDue ==
    [][/\ AutoAdvance
          => now >= state.changed + DueAfter(state, multiplier)
       /\ (th[Autoscroll].pc = "eval"
              /\ now < state.changed + DueAfter(state, multiplier))
          => th'[Autoscroll].pc \in {"eval", "wait"}]_vars

\* The loop woke at or after the deadline it had computed, and activity
\* recorded meanwhile has moved the deadline ahead of now.
C3_Witness ==
    /\ th[Autoscroll].pc = "eval" /\ th[Autoscroll].next # -1
    /\ now >= th[Autoscroll].next
    /\ now < state.changed + DueAfter(state, multiplier)

\* C4 as stated: while paused is set the autoscroll loop never advances.
C4_NoAdvanceWhilePaused == ~(th[Autoscroll].pc = "see" /\ state.paused)

NavigationOps == {"goto_previous_tab", "goto_next_tab", "goto_by_name",
                  "autoscroll"}

\* C4 amended: while paused is set the autoscroll loop advances only once
\* the pause duration has elapsed since the last recorded activity, and
\* paused is cleared only by a navigation (of a user or of that advance).
C4_PausedUntilPauseDuration ==
    [][state.paused
         => /\ AutoAdvance => now >= state.changed + autoscroll_pause
            /\ ~state'.paused
                 => \E t \in Threads :
                      /\ lock = t \/ lock' = t
                      /\ th[t].op \in NavigationOps
                           \/ th'[t].op \in NavigationOps]_vars

\* The loop is advancing out of a pause that lasted the pause duration.
C4_Witness ==
    /\ th[Autoscroll].pc = "see" /\ state.paused
    /\ now >= state.changed + autoscroll_pause

\* C5: paused and held are never both true.
C5_NotPausedAndHeld == ~(state.paused /\ state.held)

\* A hold request (the hold of user_press) is about to run while paused.
C5_Witness ==
    \E t \in Users :
        /\ th[t].op = "user_press" /\ th[t].pc = "pressed"
        /\ state.paused /\ ~state.held

\* C6: pause() leaves paused true and held false and records activity,
\* also when it was already paused; user_press, reload_tab and
\* user_activity do not change paused.
C6_PauseSetsNeverToggles ==
    [][/\ \A t \in Users :
            pause(t) => /\ state'.paused /\ ~state'.held
                        /\ state'.changed = now
       /\ \A t \in Users :
            user_activity(t) => state'.paused = state.paused
       /\ \A t \in Users :
            (/\ lock = t \/ lock' = t
             /\ th[t].op \in {"user_press", "reload_tab"}
                  \/ th'[t].op \in {"user_press", "reload_tab"})
            => state'.paused = state.paused]_vars

\* pause() has run at a later instant than the activity before it.
C6_Witness ==
    /\ state.paused /\ ~state.held
    /\ now > 0 /\ state.changed = now /\ lock = 0

Pressing(t) == th[t].pc \in {"press", "inject", "pressed"}

\* C7: Hands::press is never entered by two threads at once, an operation's
\* route is delivered by one press call, and no two operations are between
\* their press call and their return at the same time.
C7_PressNotInterleaved ==
    /\ Cardinality({t \in Threads : th[t].pc = "inject"}) <= 1
    /\ \A t \in Threads : th[t].pc = "inject" => hands = t
    /\ Cardinality({t \in Threads : Pressing(t)}) <= 1
    /\ \A t \in Threads :
          (th[t].pc = "inject" /\ th[t].op \in NavigationOps)
          => ApplyKeys(state.tab, th[t].keys, N) = th[t].tab

\* A user's keys are being injected while the autoscroll loop, its timeout
\* over, waits for the state mutex.
C7_Witness ==
    \E t \in Users :
        /\ th[t].pc = "inject"
        /\ th[Autoscroll].pc = "wait" /\ now >= th[Autoscroll].next

BlockingCall(t) == th[t].pc \in {"inject", "settle", "see"}

\* C8 as stated: no operation holds the ActivityState lock while its
\* blocking external call is in progress.
C8_LockFreeDuringBlockingCall ==
    \A t \in Threads : BlockingCall(t) => lock # t

\* C8 amended: every operation holds the ActivityState lock from its start
\* to its return, its keystroke injection, screen capture and settle sleep
\* included; only the timed wait of the autoscroll loop gives it up.
C8_LockHeldDuringBlockingCall ==
    \A t \in Threads :
        (BlockingCall(t) \/ Pressing(t) \/ th[t].pc \in {"eval", "advance"})
        => lock = t

\* The settle sleep of a synchronous goto_by_name is in progress.
C8_Witness ==
    \E t \in Users : th[t].pc = "settle" /\ lock = t

\* C9: when the keystroke injection of an operation fails, ActivityState is
\* left as it was; stated for the tracked tab, which is not set to the
\* target of a navigation whose keys were not delivered.
C9_FailedPressLeavesState ==
    [][\A t \in Threads :
         (th[t].pc = "pressed" /\ th[t].keys # <<>> /\ ~th[t].ok)
         => state'.tab = state.tab]_vars

\* C10: a route request to target 0 or N + 1 fails (panics) without a key
\* being sent and without the tracked tab changing.
C10_InvalidTargetFails ==
    \A t \in Threads :
        (th[t].op = "change_tab" /\ th[t].tab \in {0, N + 1})
        => /\ th[t].pc = "panicked"
           /\ th[t].keys = <<>>
           /\ state.tab \in 1..N

\* The tab after and before tab c of n tabs, with wraparound.
NextOf(c, n) == IF c = n THEN 1 ELSE c + 1
PreviousOf(c, n) == IF c = 1 THEN n ELSE c - 1

\* An indirect target: beyond the direct tabs, before the last tab, and
\* neither the current tab nor one of its neighbours.
Indirect(c, tab, n) ==
    /\ DIRECT_TABS < tab /\ tab < n
    /\ tab \notin {c, NextOf(c, n), PreviousOf(c, n)}

Abs(x) == IF x < 0 THEN 0 - x ELSE x
PlainDistance(c, tab) == Abs(tab - c)
WrapDistance(c, tab, n) == Min(Abs(tab - c), n - Abs(tab - c))

IsSteps(keys, n) ==
    /\ Len(keys) = n
    /\ \/ \A i \in 1..n : keys[i] = KEY_NEXT_TAB
       \/ \A i \in 1..n : keys[i] = KEY_PREVIOUS_TAB
IsJumpThenSteps(keys, jump, step, n) ==
    /\ Len(keys) = n /\ n >= 1 /\ keys[1] = jump
    /\ \A i \in 2..n : keys[i] = step

\* The route to an indirect target is the cheapest of (1) c1 steps from the
\* current tab, (2) a jump to tab 8 and StepNext, (3) a jump to the last
\* tab and StepPrevious, with (1) before (2) before (3) on equal cost.
CheapestOfThree(keys, c1, tab, n) ==
    LET c2 == 1 + (tab - DIRECT_TABS)
        c3 == 1 + (n - tab)
    IN  IF c1 <= c2 /\ c1 <= c3 THEN IsSteps(keys, c1)
        ELSE IF c2 <= c3
        THEN IsJumpThenSteps(keys, key_last_direct_tab, KEY_NEXT_TAB, c2)
        ELSE IsJumpThenSteps(keys, KEY_LAST_TAB, KEY_PREVIOUS_TAB, c3)

IndirectCall(t) ==
    /\ th[t].op = "change_tab" /\ th[t].pc = "pressed"
    /\ Indirect(state.tab, th[t].tab, N)

\* C11 as stated: for an indirect target the route is the cheapest of the
\* three candidates, option (1) costing the wraparound-aware distance.
C11_CheapestWithWrapDistance ==
    \A t \in Threads :
        IndirectCall(t)
        => CheapestOfThree(th[t].keys,
                           WrapDistance(state.tab, th[t].tab, N), th[t].tab, N)

\* C11 amended: the same, option (1) costing the plain distance
\* |target - current| (stepping never wraps), and the keys reach the target.
C11_CheapestWithPlainDistance ==
    \A t \in Threads :
        IndirectCall(t)
        => /\ CheapestOfThree(th[t].keys,
                              PlainDistance(state.tab, th[t].tab), th[t].tab, N)
           /\ ApplyKeys(state.tab, th[t].keys, N) = th[t].tab

\* Stepping from tab 7 to tab 9 costs 2, as much as jumping to tab 8 and
\* stepping once: the two steps were pressed.
C11_Witness ==
    \E t \in Threads :
        /\ IndirectCall(t) /\ state.tab = 7 /\ th[t].tab = 9
        /\ th[t].keys = <<KEY_NEXT_TAB, KEY_NEXT_TAB>>

\* C12: for a valid target that is not indirect: the current tab gives no
\* key, the tab unchanged and the change reported false; else a tab of 1..8
\* gives its one direct jump, also when it is a neighbour or the last tab;
\* else the last tab gives one jump to the last tab; else the next tab one
\* StepNext and the previous tab one StepPrevious.
C12_PriorityOfSingleKeys ==
    \A t \in Threads :
        (/\ th[t].op = "change_tab" /\ th[t].tab \in 1..N
         /\ th[t].pc \in {"pressed", "done"})
        => LET tab == th[t].tab
               c == state.tab
           IN  /\ (th[t].pc = "done" /\ th[t].keys = <<>>)
                    => ~th[t].ret /\ state.tab = tab
               /\ (th[t].pc = "done" /\ th[t].keys # <<>>) => th[t].ret
               /\ (th[t].pc = "pressed" /\ ~Indirect(c, tab, N))
                    => th[t].keys =
                         IF tab = c THEN <<>>
                         ELSE IF tab <= DIRECT_TABS THEN <<CtrlDigit[tab]>>
                         ELSE IF tab = N THEN <<KEY_LAST_TAB>>
                         ELSE IF tab = NextOf(c, N) THEN <<KEY_NEXT_TAB>>
                         ELSE <<KEY_PREVIOUS_TAB>>

\* Tab 2 of two tabs, which is direct, the next, the previous and the last
\* tab of tab 1 at once, was reached by its direct jump.
C12_Witness ==
    \E t \in Threads :
        /\ th[t].op = "change_tab" /\ th[t].pc = "pressed"
        /\ N = 2 /\ state.tab = 1 /\ th[t].tab = 2
        /\ th[t].keys = <<CtrlDigit[2]>>

\* C13: goto_next_tab / goto_previous_tab, from any state, move the tracked
\* tab to the next / previous tab with wraparound and leave paused false,
\* held true and the last activity at now; with 10 tabs, on tab 8,
\* goto_next_tab sends exactly one StepNext and ends on tab 9.
C13_RelativeNavigation ==
    [][\A t \in Users :
         (/\ th[t].pc = "pressed" /\ th'[t].pc = "idle"
          /\ th[t].op \in {"goto_next_tab", "goto_previous_tab"})
         => /\ state'.tab = IF th[t].op = "goto_next_tab"
                            THEN NextOf(state.tab, N)
                            ELSE PreviousOf(state.tab, N)
            /\ ~state'.paused /\ state'.held /\ state'.changed = now
            /\ (N = 10 /\ state.tab = 8 /\ th[t].op = "goto_next_tab")
                 => th[t].keys = <<KEY_NEXT_TAB>> /\ state'.tab = 9]_vars

\* With 10 tabs, goto_next_tab on tab 8 has, some time after its call, pressed
\* its one StepNext and is about to return.
C13_Witness ==
    \E t \in Users :
        /\ th[t].op = "goto_next_tab" /\ th[t].pc = "pressed" /\ th[t].ok
        /\ N = 10 /\ state.tab = 8 /\ browser = 9
        /\ th[t].keys = <<KEY_NEXT_TAB>> /\ now > state.changed

\* The step in which goto_by_name, its keys pressed, finishes change_tab.
ByNameReturn(t) ==
    /\ th[t].pc = "pressed" /\ th[t].op = "goto_by_name"
    /\ th'[t].pc # "pressed"

\* C14 (as stated): goto_by_name with a resolving name has, from every
\* starting state, the effect of relative navigation: the tracked tab is the
\* resolved tab, paused is false, held is true, the last activity is now,
\* also when the resolved tab is the current tab and when paused is set.
C14_ByNameLikeRelative ==
    [][\A t \in Users :
         ByNameReturn(t)
         => /\ state'.tab = th[t].tab
            /\ ~state'.paused /\ state'.held /\ state'.changed = now]_vars

\* C14 (amended): goto_by_name with a resolving name ends on the resolved
\* tab with the last activity at now; paused is cleared and held set only
\* when the resolved tab differs from the current one.  On the current tab
\* no key is sent and paused and held stay as they were.
C14_ByNameWhenTabChanges ==
    [][\A t \in Users :
         ByNameReturn(t)
         => /\ state'.tab = th[t].tab /\ state'.changed = now
            /\ IF state.tab # th[t].tab
               THEN ~state'.paused /\ state'.held
               ELSE /\ th[t].keys = <<>>
                    /\ state'.paused = state.paused
                    /\ state'.held = state.held]_vars

\* goto_by_name resolved to the current tab while the display is paused.
C14_Witness ==
    \E t \in Users :
        /\ th[t].pc = "pressed" /\ th[t].op = "goto_by_name"
        /\ th[t].tab = state.tab /\ state.paused

\* C15: goto_by_name with a name that is not in the tabs table returns at
\* once, sends no key and leaves the tracked tab, paused, held and the last
\* activity (and everything else) unchanged.
C15_UnknownNameNoEffect ==
    \A t \in Users : \A sync \in BOOLEAN :
        th[t].pc = "idle"
        => /\ ENABLED goto_by_name(t, 0, sync)
           /\ ~ENABLED (goto_by_name(t, 0, sync) /\ vars' # vars)

\* An idle thread can call goto_by_name with an unknown name while the
\* display is paused and another thread is inside a Browser operation.
C15_Witness ==
    \E t \in Users :
        /\ th[t].pc = "idle" /\ tabs_get(0) = -1
        /\ ENABLED goto_by_name(t, 0, TRUE)
        /\ state.paused /\ lock # 0 /\ state.tab # FIRST_TAB

\* C16: reload_tab sends exactly the reload key and sets the last activity
\* to now; the tracked tab, paused and held are left unchanged.
C16_ReloadOnlyRecordsActivity ==
    [][\A t \in Users :
         (th[t].op = "reload_tab" \/ th'[t].op = "reload_tab")
         => /\ th'[t].op = "reload_tab" => th'[t].keys = <<KEY_RELOAD>>
            /\ state'.tab = state.tab
            /\ state'.paused = state.paused
            /\ state'.held = state.held
            /\ IF th[t].pc = "pressed" /\ th'[t].pc = "idle"
               THEN state'.changed = now
               ELSE state'.changed = state.changed]_vars

\* reload_tab has pressed Ctrl+r, some time after the last activity, on a
\* display that is not held, and is about to return.
C16_Witness ==
    \E t \in Users :
        /\ th[t].op = "reload_tab" /\ th[t].pc = "pressed" /\ th[t].ok
        /\ th[t].keys = <<KEY_RELOAD>>
        /\ ~state.held /\ now > state.changed

\* The autoscroll thread is between the decision that an advance is due and
\* the return of its change_tab.
Advancing == th[Autoscroll].pc \notin {"idle", "start", "eval", "wait"}

\* C17: every auto-advance moves the tracked tab from t to t + 1, wrapping
\* from the last tab to the first, and leaves held false, paused false and
\* the last activity at now.
C17_AutoAdvanceEffect ==
    [][/\ AutoAdvance => th'[Autoscroll].tab = NextOf(state.tab, N)
       /\ Advancing
           => IF th'[Autoscroll].pc = "eval"
              THEN /\ state'.tab = th[Autoscroll].tab
                   /\ ~state'.held /\ ~state'.paused
                   /\ state'.changed = now
              ELSE /\ state'.tab = state.tab
                   /\ th'[Autoscroll].tab = th[Autoscroll].tab]_vars

\* An auto-advance from the last of several tabs, due at least a hold
\* duration after the last activity, has pressed its key and is about to
\* return on the first tab.
C17_Witness ==
    /\ th[Autoscroll].pc = "pressed" /\ th[Autoscroll].op = "autoscroll"
    /\ N > 1 /\ state.tab = N /\ th[Autoscroll].tab = FIRST_TAB
    /\ th[Autoscroll].ok /\ now >= state.changed + autoscroll_hold

\* The autoscroll loop is at its head, about to evaluate the deadline, and
\* has evaluated it before without an advance since.
LaterEvaluation == th[Autoscroll].pc = "eval" /\ th[Autoscroll].next # -1

\* C18 (as stated): in the unpaused, unheld state only the first deadline
\* evaluation after the start uses multiplier 2; every later evaluation,
\* those before the first auto-advance included, uses multiplier 1.
C18_MultiplierOneAfterFirstEvaluation ==
    (LaterEvaluation /\ ~state.paused /\ ~state.held) => multiplier = 1

\* C18 (amended): the multiplier starts at 2 and becomes 1 exactly when an
\* auto-advance is found due; an evaluation that goes back to sleep leaves
\* it as it was and, in the unpaused, unheld state, sleeps until
\* last activity + delay * multiplier.
C18_MultiplierTwoUntilFirstAdvance ==
    /\ multiplier = 2
    /\ [][/\ multiplier' = IF AutoAdvance THEN 1 ELSE multiplier
          /\ (/\ th[Autoscroll].pc = "eval" /\ th'[Autoscroll].pc = "wait"
              /\ ~state.paused /\ ~state.held)
             => /\ th'[Autoscroll].next
                      = state.changed + autoscroll_delay * multiplier
                /\ now < th'[Autoscroll].next]_vars

\* The loop, woken before any auto-advance, evaluates the deadline again
\* with multiplier 2 in the unpaused, unheld state.
C18_Witness ==
    /\ LaterEvaluation /\ ~state.paused /\ ~state.held
    /\ multiplier = 2 /\ state.changed > 0

\* key is the symbol of the code that follows the window.
Extends(history, key) ==
    /\ Len(history) < Len(KONAMI_CODE)
    /\ Append(history, key) = Prefix(Len(history) + 1)

\* A step of Konami::add that is visible in the window or in its outcome.
FeedStep ==
    <<konami.history, konami.key, konami.result>>'
        # <<konami.history, konami.key, konami.result>>

\* C19: from an empty window, feeding the 11 symbols of the code in order
\* yields Matching for each of the first 10 (the window growing to the
\* prefix fed so far) and Complete for the last, after which the window is
\* empty and the bound command has been requested exactly once.
C19_CodeCompletes ==
    [][\A k \in 0..(Len(KONAMI_CODE) - 1) :
         (/\ konami.history = Prefix(k)
          /\ konami'.history # konami.history
          /\ konami'.key = KONAMI_CODE[k + 1])
         => IF k + 1 < Len(KONAMI_CODE)
            THEN /\ konami'.result = Matching
                 /\ konami'.history = Prefix(k + 1)
                 /\ konami'.entered = konami.entered
                 /\ konami'.requested = konami.requested
            ELSE /\ konami'.result = Complete
                 /\ konami'.history = <<>>
                 /\ konami'.entered = konami.entered + 1
                 /\ konami'.requested
                      = konami.requested + IF konami.command THEN 1 ELSE 0
       ]_vars

\* The code was fed once, with a command bound: the last symbol gave
\* Complete, the window is empty and the command was requested once.
C19_Witness ==
    /\ konami.result = Complete /\ konami.key = "S"
    /\ konami.history = <<>> /\ konami.command
    /\ konami.entered = 1 /\ konami.requested = 1

\* C20: a symbol that does not extend the match, fed after any proper
\* prefix of the code (or after any other window), yields Reset and leaves
\* the window holding exactly that symbol; after every feed the window is
\* empty, a single symbol or a proper prefix of the code, so that repeating
\* a non-extending symbol never grows it beyond length 1.
C20_ResetRestartsWindow ==
    [][/\ (FeedStep /\ ~Extends(konami.history, konami'.key))
           => /\ konami'.result = Reset
              /\ konami'.history = <<konami'.key>>
       /\ \/ Len(konami'.history) <= 1
          \/ \E k \in 2..(Len(KONAMI_CODE) - 1) : konami'.history = Prefix(k)
       /\ konami'.result = Reset => Len(konami'.history) = 1]_vars

\* A U that did not extend the window it was fed to was reported as Reset
\* and is now the whole window.
C20_Witness ==
    /\ konami.result = Reset /\ konami.key = "U"
    /\ konami.history = <<"U">>

\* The 11 symbols fed last are the code.
CodeJustFed == konami.tail = KONAMI_CODE

\* C21: whenever the 11 symbols of the code were fed consecutively,
\* whatever was fed before them, the feed of the last one reports Complete
\* and the bound action is triggered.
C21_CodeAnywhereCompletes ==
    CodeJustFed => konami.result = Complete /\ konami.entered > 0

\* The step in which tab_content returns to the autoscroll loop.
Observed == th[Autoscroll].pc = "see" /\ th'[Autoscroll].pc # "see"

\* What is stored for tab i before its observation: (fingerprint, since).
Stored(i) ==
    IF i <= Len(state.content) THEN state.content[i]
    ELSE [fp |-> "", at |-> -1]

\* The observation finds a fingerprint other than the stored one, or none
\* stored with a time.
FirstOrChanged(i, fp) == Stored(i).fp # fp \/ Stored(i).at = -1

\* C22 (as stated): with the captured fingerprint equal to the stored one
\* tab_content returns Some(elapsed, shouldReload), elapsed the time since
\* that fingerprint was first seen and shouldReload iff the tab has a
\* threshold and elapsed >= threshold; with a different fingerprint or on
\* the first observation it stores (fingerprint, now) and returns None.
C22_NoneOnChangeElapsedOtherwise ==
    [][(Observed /\ th'[Autoscroll].seen # "none")
       => LET i == state.tab - FIRST_TAB + 1
              fp == th'[Autoscroll].seen
              elapsed == now - Stored(i).at
          IN  IF FirstOrChanged(i, fp)
              THEN /\ ~th'[Autoscroll].some
                   /\ state'.content[i] = [fp |-> fp, at |-> now]
              ELSE /\ th'[Autoscroll].some
                   /\ th'[Autoscroll].duration = elapsed
                   /\ th'[Autoscroll].reload
                        = (pages[i] # -1 /\ elapsed >= pages[i])]_vars

\* C22 (amended): tab_content returns None only when the capture fails.
\* Otherwise it returns Some(elapsed, shouldReload): the fingerprint counts
\* as seen since now when it differs from the stored one or none is stored
\* with a time, else since the stored time; without a threshold the result
\* is (0, false); with one, elapsed is the time since then and shouldReload
\* is elapsed >= threshold.  The fingerprint is stored with that time, or
\* with no time when shouldReload holds.
C22_SomeWheneverCaptured ==
    [][Observed
       => LET i == state.tab - FIRST_TAB + 1
              fp == th'[Autoscroll].seen
              since == IF FirstOrChanged(i, fp) THEN now ELSE Stored(i).at
              elapsed == now - since
              due == pages[i] # -1 /\ elapsed >= pages[i]
          IN  IF fp = "none"
              THEN ~th'[Autoscroll].some /\ state' = state
              ELSE /\ th'[Autoscroll].some
                   /\ th'[Autoscroll].reload = due
                   /\ th'[Autoscroll].duration
                        = IF pages[i] # -1 THEN elapsed ELSE 0
                   /\ Len(state'.content) = N
                   /\ state'.content[i]
                        = [fp |-> fp, at |-> IF due THEN -1 ELSE since]
                   /\ \A j \in 1..N : j # i => state'.content[j] = Stored(j)
                   /\ state'.tab = state.tab]_vars

\* tab_content has seen a tab's fingerprint unchanged for some time, less
\* than the tab's threshold.
C22_Witness ==
    /\ th[Autoscroll].pc = "advance" /\ th[Autoscroll].some
    /\ th[Autoscroll].duration > 0 /\ ~th[Autoscroll].reload
    /\ state.content[state.tab].fp = th[Autoscroll].seen

\* The command threads whose command is running.
Running == {c \in Commands : exec.cmd[c] = "running"}

InPress(t) == th[t].pc \in {"press", "inject"}

\* C24: when the content observation of an auto-advance signals a reload,
\* the reload key is pressed exactly once, before the navigation keys of
\* that advance and with no key of another operation in between; when it
\* signals none, or the capture fails, that advance presses no reload key.
C24_ReloadOnceBeforeNavigation ==
    [][LET a == th[Autoscroll]
           b == th'[Autoscroll]
       IN  /\ Observed
               => IF b.reload
                  THEN /\ b.some /\ b.pc = "press"
                       /\ b.op = "autoscroll_reload"
                       /\ b.keys = <<KEY_RELOAD>>
                  ELSE b.pc = "advance" /\ b.op = "autoscroll"
           /\ (Advancing /\ a.op = "autoscroll_reload" /\ b # a)
               => /\ a.reload /\ a.keys = <<KEY_RELOAD>>
                  /\ IF a.pc = "pressed"
                     THEN /\ b.op = "autoscroll"
                          /\ b.keys = change_tab_route(state', a.tab).keys
                     ELSE b.op = a.op /\ b.keys = a.keys
           /\ (Advancing /\ a.op = "autoscroll" /\ a.pc # "see")
               => /\ b.op # "autoscroll_reload"
                  /\ \A i \in 1..Len(a.keys) : a.keys[i] # KEY_RELOAD
           /\ Advancing => \A t \in Users : ~InPress(t) /\ ~InPress(t)'
      ]_vars

\* An auto-advance whose observation signalled a reload has pressed it and
\* is now pressing its navigation key.
C24_Witness ==
    /\ th[Autoscroll].op = "autoscroll" /\ th[Autoscroll].reload
    /\ th[Autoscroll].pc = "inject"
    /\ th[Autoscroll].keys = <<CtrlDigit[th[Autoscroll].tab]>>

\* An input thread calls a Browser operation.
UserCall ==
    \E t \in Users :
        \/ user_activity(t)
        \/ pause(t)
        \/ th[t].pc = "idle" /\ th'[t].pc # "idle"

\* C25: in kiosk mode, if from some point on no operation is called (so
\* that none records activity) and the key presses return, the autoscroll
\* loop performs an auto-advance again and again, for ever, whatever held
\* and paused were at that point.
C25_AutoAdvanceForEver ==
    (<>[][~UserCall]_vars) => []<><<AutoAdvance>>_vars

\* Long after the last activity, on a paused display, an auto-advance has
\* become due.
C25_Witness ==
    /\ th[Autoscroll].pc = "see" /\ state.paused
    /\ now = MaxTime /\ state.changed = 0 /\ state.tab # FIRST_TAB

\* The locks a thread holds when it asks for another are earlier in the
\* order history, run, state, {config, hands}: the hands are taken under
\* the state mutex only; a Browser operation in progress has the state
\* mutex; `run` is held by the caller of execute during its user_activity
\* or by the command thread from its user_activity to its end, and by no
\* one else; the config mutex is kept over a step by the reloader only.
LockOrder ==
    /\ \A t \in Threads :
          /\ hands = t => lock = t /\ th[t].pc = "inject"
          /\ th[t].pc \notin {"idle", "start", "wait", "done"} => lock = t
    /\ \A r \in Requesters : exec.run = r <=> exec.req[r] = "activity"
    /\ \A c \in Commands :
          exec.run = CommandThread(c)
              <=> exec.cmd[c] \in {"activity", "running"}
    /\ cfg \in {0, Reloader}

\* Some thread is inside an operation or waits for a mutex.
SomeoneBusy ==
    \/ \E t \in Threads : th[t].pc \notin {"idle", "done"}
    \/ \E r \in Requesters : exec.req[r] # "idle"
    \/ \E c \in Commands : exec.cmd[c] # "none"
    \/ cfg # 0

\* A step of a thread that is inside an operation or waits for a mutex.
Progress ==
    \/ ExecStep
    \/ AutoscrollStep
    \/ \E t \in Users : Finish(t)
    \/ config_reloaded

\* C26: the threads never deadlock and take their locks in the order
\* history, run, state, {config, hands}; if every command and every key
\* press returns, then under fair lock scheduling every call of execute
\* returns, every requested command is run and ends, every Browser
\* operation that was started completes and the reloader lets go of the
\* config: each of these threads is at rest again and again, and so
\* whenever it is busy it is at rest later.
C26_NoDeadlockAllComplete ==
    /\ [](LockOrder /\ (SomeoneBusy => ENABLED Progress))
    /\ \A r \in Requesters : []<>(exec.req[r] = "idle")
    /\ \A c \in Commands : []<>(exec.cmd[c] = "none")
    /\ \A t \in Users : []<>(th[t].pc = "idle")
    /\ []<>(th[Autoscroll].pc = "wait")
    /\ []<>(cfg = 0)

\* A spawned command waits for `run`, which the main device's call of
\* execute for the Konami command holds while it waits for the state mutex,
\* which an input thread keeps while it presses a key; the reloader holds
\* the config.
C26_Witness ==
    /\ \E c \in Commands : exec.cmd[c] = "spawned"
    /\ exec.req[MainDevice] = "activity"
    /\ th[1].pc = "inject" /\ th[Autoscroll].pc = "wait"
    /\ cfg = Reloader

\* C27: when every injection succeeds, the tracked tab is the active tab of
\* a browser that starts on tab 1 and applies every key delivered to it,
\* whenever no thread holds the state mutex: for every number of tabs and
\* every interleaving of the input thread's navigation (previous, next, by
\* name) with the auto-advance.
C27_TrackedTabIsBrowserTab == MutexFree(lock) => state.tab = browser

\* With RouteMaxTabs tabs, after the first auto-advance (multiplier 1) and
\* navigation by the input thread, both threads are at rest, the state mutex
\* is free and tracked tab and browser are on the indirect tab
\* DIRECT_TABS + 3.
C27_Witness ==
    /\ MutexFree(lock) /\ N = RouteMaxTabs /\ multiplier = 1
    /\ state.tab = DIRECT_TABS + 3 /\ browser = state.tab
    /\ th[Autoscroll].pc = "wait" /\ th[1].pc = "idle"

\* No Browser operation starts in the step.
NoBrowserCall == UNCHANGED <<state, lock, th>>

\* The main device's thread starts the Browser operation of `call` in the
\* step: it has the state mutex and is in the operation, or (pause, which
\* is over at once) the state is the one pause leaves.
Started(call) ==
    CASE call.op = "none" -> NoBrowserCall
      [] call.op = "user_press" ->
            /\ lock' = MainDevice
            /\ th'[MainDevice].op = "user_press"
            /\ th'[MainDevice].keys = <<call.keys>>
      [] call.op = "pause" ->
            state' = pause_state(state) /\ UNCHANGED <<lock, th>>
      [] OTHER ->
            lock' = MainDevice /\ th'[MainDevice].op = call.op

\* C28: a button press of the navigation device starts its Browser
\* operation when the matcher answers Reset and starts none when it answers
\* Matching or Complete, which it does only for B, A and S pressed after
\* UUDDLRLR; a D-pad press starts its operation whatever the answer.
C28_ButtonsOnlyOnReset ==
    [][/\ \A id \in Buttons :
            Navigation_button_press(id) =>
                IF konami'.result = Reset THEN Started(ButtonCall(id))
                ELSE /\ NoBrowserCall
                     /\ id \in {1, 2, 9}
                     /\ \E k \in 8..10 : konami.history = Prefix(k)
       /\ \A dir \in Directions :
            Navigation_dpad_press(dir) => Started(DpadCall(dir))]_vars

\* The B button was pressed after UUDDLRLR: the matcher answered Matching
\* and the thread is in no Browser operation.
C28_Witness ==
    /\ konami.key = "B" /\ konami.result = Matching
    /\ konami.history = Prefix(9)
    /\ th[MainDevice].pc = "idle" /\ MutexFree(lock)

====
